---- MODULE Spec2Model ----
(***************************************************************************)
(* A model of the AltStore repository server: the filesystem scan          *)
(* (discovery.rs), archive metadata extraction (ipa_info.rs), filename     *)
(* version parsing, version merge and manifest generation (generator.rs), *)
(* the download token (token.rs) and the request handlers (routes/).       *)
(*                                                                         *)
(* Strings are sequences of one-character strings, so that prefix, suffix, *)
(* substring, split and byte-wise comparison are computed, not assumed.    *)
(* Option<T> is a sequence of length 0 (None) or 1 (Some).                 *)
(***************************************************************************)
EXTENDS Integers, Sequences, FiniteSets, TLC

VARIABLES
    state,      \* the shared AppState (state.rs)
    fs,         \* the filesystem under apps_dir
    handler,    \* the request handler in flight, and its response
    call,       \* a direct call of one of the pure functions: its arguments
    ret         \* the value that call returned (None while not yet made)

vars == <<state, fs, handler, call, ret>>

----------------------------------------------------------------------------
(* Bounds of the model *)

\* longest path component of a request in SpecValid
MaxComponentLen == 3
\* longest filename stem in SpecParse
MaxStemLen == 5
\* longest app name, filename or secret in SpecToken
MaxTokenFieldLen == 2
\* longest list of manual versions in SpecMerge and SpecGenerate
MaxManual == 2
\* longest list of discovered versions in SpecMerge
MaxDiscovered == 2
\* longest vector of entries of one app in SpecVersion
MaxEntries == 3

----------------------------------------------------------------------------
(* Option *)

None == <<>>
Some(x) == <<x>>
is_some(o) == Len(o) = 1
is_none(o) == Len(o) = 0
unwrap(o) == o[1]
unwrap_or(o, d) == IF is_some(o) THEN o[1] ELSE d

----------------------------------------------------------------------------
(* Strings: str methods of the Rust standard library used by the program *)

\* all strings over alphabet of length at most n
StringsUpTo(alphabet, n) == UNION {[1..k -> alphabet] : k \in 0..n}

starts_with(s, p) == Len(p) <= Len(s) /\ SubSeq(s, 1, Len(p)) = p

ends_with(s, p) == Len(p) <= Len(s) /\ SubSeq(s, Len(s) - Len(p) + 1, Len(s)) = p

contains(s, p) == \E i \in 1..(Len(s) - Len(p) + 1) : SubSeq(s, i, i + Len(p) - 1) = p

strip_suffix(s, p) ==
    IF ends_with(s, p) THEN Some(SubSeq(s, 1, Len(s) - Len(p))) ELSE None

RECURSIVE trim_end_matches(_, _)
trim_end_matches(s, c) ==
    IF s # <<>> /\ s[Len(s)] = c
    THEN trim_end_matches(SubSeq(s, 1, Len(s) - 1), c)
    ELSE s

\* str::split(c): the pieces between the occurrences of c (n occurrences give n+1 pieces)
RECURSIVE split(_, _)
split(s, c) ==
    IF \A i \in 1..Len(s) : s[i] # c
    THEN <<s>>
    ELSE LET k == CHOOSE i \in 1..Len(s) : s[i] = c /\ \A j \in 1..(i - 1) : s[j] # c
         IN  <<SubSeq(s, 1, k - 1)>> \o split(SubSeq(s, k + 1, Len(s)), c)

\* the byte of an ASCII character
CharCode ==
    [c \in {" ", "(", ")", "-", ".", "/", "0", "1", "2", "3", "4", "5", "6", "7", "8", "9",
            ":", "A", "B", "C", "I", "P", "\\", "_", "a", "b", "i", "p", "|"} |->
        CASE c = " " -> 32 [] c = "(" -> 40 [] c = ")" -> 41 [] c = "-" -> 45
          [] c = "." -> 46 [] c = "/" -> 47 [] c = "0" -> 48 [] c = "1" -> 49
          [] c = "2" -> 50 [] c = "3" -> 51 [] c = "4" -> 52 [] c = "5" -> 53
          [] c = "6" -> 54 [] c = "7" -> 55 [] c = "8" -> 56 [] c = "9" -> 57
          [] c = ":" -> 58 [] c = "A" -> 65 [] c = "B" -> 66 [] c = "C" -> 67
          [] c = "I" -> 73 [] c = "P" -> 80 [] c = "\\" -> 92 [] c = "_" -> 95
          [] c = "a" -> 97 [] c = "b" -> 98 [] c = "i" -> 105 [] c = "p" -> 112
          [] c = "|" -> 124]

\* Ord for String: byte-wise lexicographic comparison; -1, 0, 1 for Less, Equal, Greater
RECURSIVE str_cmp(_, _)
str_cmp(a, b) ==
    IF a = <<>> /\ b = <<>> THEN 0
    ELSE IF a = <<>> THEN -1
    ELSE IF b = <<>> THEN 1
    ELSE IF CharCode[Head(a)] < CharCode[Head(b)] THEN -1
    ELSE IF CharCode[Head(a)] > CharCode[Head(b)] THEN 1
    ELSE str_cmp(Tail(a), Tail(b))

\* u8::to_ascii_lowercase on the letters the model uses
to_ascii_lowercase(c) ==
    CASE c = "A" -> "a" [] c = "B" -> "b" [] c = "C" -> "c" [] c = "I" -> "i"
      [] c = "P" -> "p" [] OTHER -> c

eq_ignore_ascii_case(a, b) ==
    /\ Len(a) = Len(b)
    /\ \A i \in 1..Len(a) : to_ascii_lowercase(a[i]) = to_ascii_lowercase(b[i])

----------------------------------------------------------------------------
(* discovery.rs: is_valid_path_component *)

\* a faulty is_valid_path_component, on which C9 fails: ".." is let through
\* unless it is found at the start
is_valid_path_component_missing_dotdot(component) ==
    /\ component # <<>>
    /\ ~starts_with(component, <<".">>)
    /\ ~contains(component, <<"/">>)
    /\ ~contains(component, <<"\\">>)

is_valid_path_component(component) ==
    /\ component # <<>>
    /\ ~starts_with(component, <<".">>)
    /\ ~contains(component, <<".", ".">>)
    /\ ~contains(component, <<"/">>)
    /\ ~contains(component, <<"\\">>)

----------------------------------------------------------------------------
(* generator.rs: parse_version_from_filename *)

STR_ipa == <<".", "i", "p", "a">>
STR_Version == <<"V", "e", "r", "s", "i", "o", "n", " ">>
STR_tweak == <<" ", "(", "t", "w", "e", "a", "k", " ", "v", "e", "r", "s", "i", "o", "n", ":", " ">>
STR_build == <<" ", "(", "b", "u", "i", "l", "d", " ">>
STR_close == <<")">>

\* Result<VersionInfo>: ok, and the VersionInfo fields (empty on Err)
VersionInfoOk(version, date, description) ==
    [ok |-> TRUE, version |-> version, date |-> date, description |-> description]
VersionInfoErr == [ok |-> FALSE, version |-> <<>>, date |-> <<>>, description |-> <<>>]

\* a faulty parse_parts, on which C8 fails: the two versions are swapped
parse_parts_swapped(name, parts) ==
    CASE Len(parts) = 3 -> <<parts[2], Some(parts[3])>>
      [] Len(parts) = 2 -> <<parts[2], None>>
      [] OTHER -> <<name, None>>

\* the match on parts.len(): <<version, tweak_version>>
parse_parts(name, parts) ==
    CASE Len(parts) = 3 -> <<parts[3], Some(parts[2])>>
      [] Len(parts) = 2 -> <<parts[2], None>>
      [] OTHER -> <<name, None>>

parse_description(version, tweak_version) ==
    IF is_some(tweak_version)
    THEN STR_Version \o version \o STR_tweak \o unwrap(tweak_version) \o STR_close
    ELSE STR_Version \o version

parse_version_from_filename(filename, file_date) ==
    LET stripped == strip_suffix(filename, STR_ipa) IN
    IF is_none(stripped) THEN VersionInfoErr
    ELSE LET name == unwrap(stripped)
             parts == split(name, "_")
             vt == parse_parts(name, parts)
         IN  VersionInfoOk(vt[1], file_date, parse_description(vt[1], vt[2]))

----------------------------------------------------------------------------
(* token.rs: generate_download_token *)

\* a faulty hasher_input, on which C6 fails: the secret is never hashed
hasher_input_without_secret(app_name, filename, secret) ==
    app_name \o <<"|">> \o filename

\* the bytes fed to the hasher by the update calls, in order
hasher_input(app_name, filename, secret) ==
    app_name \o <<"|">> \o filename
        \o (IF is_some(secret) THEN <<"|">> \o unwrap(secret) ELSE <<>>)

\* Sha256 truncated to its first 16 bytes, idealised as collision-free: the
\* digest is not computed but named by the byte string that was hashed ('#'
\* followed by it), so that two digests are equal exactly when their inputs
\* are. A claim that needs more of the hash than this is outside the model.
sha256_first16(bytes) == <<"#">> \o bytes

\* URL_SAFE_NO_PAD.encode: an injective encoding of the 16 bytes as text,
\* named by the bytes it encodes ('~' followed by them)
base64_url_encode(data) == <<"~">> \o data

generate_download_token(app_name, filename, secret) ==
    base64_url_encode(sha256_first16(hasher_input(app_name, filename, secret)))

----------------------------------------------------------------------------
(* discovery.rs: the modification date, DateTime<Utc>::format("%Y-%m-%d") *)

Digit(n) == <<CASE n = 0 -> "0" [] n = 1 -> "1" [] n = 2 -> "2" [] n = 3 -> "3"
                [] n = 4 -> "4" [] n = 5 -> "5" [] n = 6 -> "6" [] n = 7 -> "7"
                [] n = 8 -> "8" [] n = 9 -> "9">>

\* n written in decimal, zero-padded to width w (n < 10^w)
RECURSIVE ZeroPad(_, _)
ZeroPad(n, w) == IF w = 0 THEN <<>> ELSE ZeroPad(n \div 10, w - 1) \o Digit(n % 10)

\* the civil date <<year, month, day>> of a day number counted from 1970-01-01
civil_from_days(days) ==
    LET z == days + 719468
        era == z \div 146097
        doe == z - era * 146097
        yoe == (doe - doe \div 1460 + doe \div 36524 - doe \div 146096) \div 365
        doy == doe - (365 * yoe + yoe \div 4 - yoe \div 100)
        mp == (5 * doy + 2) \div 153
        d == doy - (153 * mp + 2) \div 5 + 1
        m == IF mp < 10 THEN mp + 3 ELSE mp - 9
        y == yoe + era * 400 + (IF m <= 2 THEN 1 ELSE 0)
    IN  <<y, m, d>>

\* mtime: seconds since the epoch (UTC); years 0000..9999
format_date(mtime) ==
    LET ymd == civil_from_days(mtime \div 86400)
    IN  ZeroPad(ymd[1], 4) \o <<"-">> \o ZeroPad(ymd[2], 2) \o <<"-">> \o ZeroPad(ymd[3], 2)

----------------------------------------------------------------------------
(* generator.rs: merge_versions *)

AppVersion(version, date, localized_description, download_url, size) ==
    [version |-> version, date |-> date, localized_description |-> localized_description,
     download_url |-> download_url, size |-> size]

\* HashMap::insert: the value of an existing key is replaced
hash_insert(map, key, value) ==
    [k \in DOMAIN map \cup {key} |-> IF k = key THEN value ELSE map[k]]

\* manual_versions.into_iter().map(|v| (v.version.clone(), v)).collect()
RECURSIVE manual_map(_)
manual_map(manual_versions) ==
    IF manual_versions = <<>> THEN <<>>
    ELSE LET n == Len(manual_versions)
             v == manual_versions[n]
         IN  hash_insert(manual_map(SubSeq(manual_versions, 1, n - 1)), v.version, v)

\* a faulty update_manual, on which C1 fails: the date follows the file too
update_manual_taking_date(manual, discovered) ==
    [manual EXCEPT !.download_url = discovered.download_url, !.size = discovered.size,
                   !.date = discovered.date]

\* the version is in both lists: keep the manual entry, take URL and size
update_manual(manual, discovered) ==
    [manual EXCEPT !.download_url = discovered.download_url, !.size = discovered.size]

\* a faulty merge_one, on which C3 fails: a new discovered version is dropped
merge_one_dropping_new(map, discovered) ==
    IF discovered.version \in DOMAIN map
    THEN [map EXCEPT ![discovered.version] = update_manual(@, discovered)]
    ELSE map

\* one iteration of the loop over discovered_versions
merge_one(map, discovered) ==
    IF discovered.version \in DOMAIN map
    THEN [map EXCEPT ![discovered.version] = update_manual(@, discovered)]
    ELSE hash_insert(map, discovered.version, discovered)

RECURSIVE merge_loop(_, _)
merge_loop(map, discovered_versions) ==
    IF discovered_versions = <<>> THEN map
    ELSE merge_loop(merge_one(map, Head(discovered_versions)), Tail(discovered_versions))

\* HashMap::into_values: the values in the map's iteration order, which the
\* program does not control (RandomState): every order is possible
into_values(map) ==
    LET keys == DOMAIN map
        n == Cardinality(keys)
        orders == {p \in [1..n -> keys] : \A i, j \in 1..n : i # j => p[i] # p[j]}
    IN  {[i \in 1..n |-> map[p[i]]] : p \in orders}

\* a faulty comparator, on which C2 fails: oldest first
sort_cmp_ascending(a, b) == str_cmp(a.date, b.date)

\* the comparator of merged.sort_by: |a, b| b.date.cmp(&a.date)
sort_cmp(a, b) == str_cmp(b.date, a.date)

\* slice::sort_by is stable: x goes before the first element it is strictly Less than
RECURSIVE sort_insert(_, _)
sort_insert(sorted, x) ==
    IF sorted = <<>> THEN <<x>>
    ELSE IF sort_cmp(x, Head(sorted)) < 0 THEN <<x>> \o sorted
    ELSE <<Head(sorted)>> \o sort_insert(Tail(sorted), x)

RECURSIVE sort_by(_)
sort_by(v) ==
    IF v = <<>> THEN <<>>
    ELSE sort_insert(sort_by(SubSeq(v, 1, Len(v) - 1)), v[Len(v)])

\* the lists merge_versions can return (one per iteration order of the map)
merge_versions(manual_versions, discovered_versions) ==
    {sort_by(merged) :
        merged \in into_values(merge_loop(manual_map(manual_versions), discovered_versions))}

----------------------------------------------------------------------------
(* ipa_info.rs: extract_ipa_info *)

STR_Payload == <<"P", "a", "y", "l", "o", "a", "d", "/">>
STR_app_Info_plist ==
    <<".", "a", "p", "p", "/", "I", "n", "f", "o", ".", "p", "l", "i", "s", "t">>

\* An archive is a sequence of zip entries [name, plist], plist being the
\* parsed property list of the entry (None when it does not parse as one).
\* Result<String>: the name of the first entry that matches, in archive order
find_info_plist(archive) ==
    LET hits == {i \in 1..Len(archive) :
                    /\ starts_with(archive[i].name, STR_Payload)
                    /\ ends_with(archive[i].name, STR_app_Info_plist)}
    IN  IF hits = {} THEN None
        ELSE Some(archive[CHOOSE i \in hits : \A j \in hits : i <= j].name)

IpaInfoErr ==
    [ok |-> FALSE, bundle_identifier |-> <<>>, bundle_version |-> <<>>,
     bundle_short_version |-> None, bundle_name |-> <<>>]

\* Result<IpaInfo> for a file: file.archive is None when the file cannot be
\* opened or is no zip archive
extract_ipa_info(file) ==
    IF is_none(file.archive) THEN IpaInfoErr
    ELSE LET archive == unwrap(file.archive)
             plist_path == find_info_plist(archive)
         IN  IF is_none(plist_path) THEN IpaInfoErr
             ELSE LET entry == archive[CHOOSE i \in 1..Len(archive) :
                                          archive[i].name = unwrap(plist_path)]
                  IN  IF is_none(entry.plist) THEN IpaInfoErr
                      ELSE LET info == unwrap(entry.plist)
                               bundle_name == IF is_some(info.bundle_display_name)
                                              THEN info.bundle_display_name
                                              ELSE info.bundle_name
                           IN  IF \/ is_none(info.bundle_identifier)
                                  \/ is_none(info.bundle_version)
                                  \/ is_none(bundle_name)
                               THEN IpaInfoErr
                               ELSE [ok |-> TRUE,
                                     bundle_identifier |-> unwrap(info.bundle_identifier),
                                     bundle_version |-> unwrap(info.bundle_version),
                                     bundle_short_version |-> info.bundle_short_version,
                                     bundle_name |-> unwrap(bundle_name)]

----------------------------------------------------------------------------
(* discovery.rs: discover_ipas *)

(* The filesystem under apps_dir:
     fs.root  "dir", "missing" or "file" (apps_dir exists, does not, is no directory)
     fs.top   the entries of apps_dir: [name, kind, children], kind "dir", "file"
              or "err" (an entry read_dir fails to read)
   and the children of a directory: [name, kind, size, mtime, archive, children],
   kind "file", "dir" (a subdirectory, with children of its own), "err" (an
   entry WalkDir fails to read) or "gone" (a file that fs::metadata fails on). *)

SKIP_DIRS ==
    {<<".", "g", "i", "t">>, <<".", "d", "e", "v", "e", "n", "v">>,
     <<".", "d", "i", "r", "e", "n", "v">>, <<".", "c", "l", "a", "u", "d", "e">>,
     <<"t", "a", "r", "g", "e", "t">>, <<"s", "r", "c">>,
     <<".", "g", "i", "t", "h", "u", "b">>}

\* Path::extension of a file name: the part after the last '.', None when
\* there is no '.' or when the only '.' is the first character
path_extension(name) ==
    LET dots == {i \in 1..Len(name) : name[i] = "."}
    IN  IF dots = {} \/ dots = {1} THEN None
        ELSE LET k == CHOOSE i \in dots : \A j \in dots : j <= i
             IN  Some(SubSeq(name, k + 1, Len(name)))

\* whether the walk of an app directory takes this child as an IPA file
is_ipa_file(child) ==
    /\ child.kind \in {"file", "gone"}
    /\ is_some(path_extension(child.name))
    /\ eq_ignore_ascii_case(unwrap(path_extension(child.name)), <<"i", "p", "a">>)

\* the IpaEntry pushed for an IPA file of directory dir_name
ipa_entry(dir_name, child) ==
    LET info == extract_ipa_info(child)
    IN  [app_name |-> dir_name,
         filename |-> child.name,
         path |-> <<dir_name, child.name>>,
         size |-> child.size,
         modified_date |-> format_date(child.mtime),
         bundle_identifier |-> IF info.ok THEN Some(info.bundle_identifier) ELSE None,
         bundle_version |-> IF info.ok THEN Some(info.bundle_version) ELSE None,
         bundle_short_version |-> IF info.ok THEN info.bundle_short_version ELSE None,
         bundle_name |-> IF info.ok THEN Some(info.bundle_name) ELSE None]

\* every enumeration of a finite set: the order read_dir and WalkDir yield
\* entries in is the operating system's
Orderings(S) ==
    LET n == Cardinality(S)
    IN  {p \in [1..n -> S] : \A i, j \in 1..n : i # j => p[i] # p[j]}

\* whether fs::metadata succeeds on the file
has_metadata(child) == child.kind = "file"

\* a faulty ipa_files, on which C12 fails: a file whose extraction fails is
\* dropped
ipa_files_dropping_unreadable(dir) ==
    {c \in dir.children : is_ipa_file(c) /\ has_metadata(c) /\ extract_ipa_info(c).ok}

\* the entries of the walk (depth one) for which an IpaEntry is pushed
ipa_files(dir) ==
    {c \in dir.children : is_ipa_file(c) /\ has_metadata(c)}

\* the ipa_entries vectors the walk of one app directory can build
ipa_entries(dir) ==
    Orderings({ipa_entry(dir.name, child) : child \in ipa_files(dir)})

\* a faulty scanned_dirs, on which C10 fails: no directory is skipped
scanned_dirs_without_skip(filesystem) ==
    {e \in filesystem.top : e.kind = "dir"}

\* the directories of apps_dir that the scan walks
scanned_dirs(filesystem) ==
    {e \in filesystem.top : e.kind = "dir" /\ e.name \notin SKIP_DIRS}

\* a faulty indexed_dirs, on which C11 fails: every scanned directory is
\* inserted
indexed_dirs_with_empty(filesystem) == scanned_dirs(filesystem)

\* the scanned directories whose ipa_entries is not empty
indexed_dirs(filesystem) ==
    {e \in scanned_dirs(filesystem) : ipa_files(e) # {}}

DiscoverErr == [ok |-> FALSE, index |-> <<>>]

\* the results discover_ipas can return: Err, or Ok(index) with index a map
\* from directory name to a non-empty vector of entries
discover_ipas(filesystem) ==
    IF filesystem.root # "dir" THEN {DiscoverErr}
    ELSE IF \E e \in filesystem.top : e.kind = "err" THEN {DiscoverErr}
    ELSE LET found == indexed_dirs(filesystem)
             names == {e.name : e \in found}
             dir_of(n) == CHOOSE e \in found : e.name = n
             vectors == UNION {ipa_entries(e) : e \in found}
         IN  {[ok |-> TRUE, index |-> idx] :
                 idx \in {f \in [names -> vectors] :
                             \A n \in names : f[n] \in ipa_entries(dir_of(n))}}

----------------------------------------------------------------------------
(* generator.rs: generate_repository *)

STR_apps == <<"/", "a", "p", "p", "s", "/">>

get_app_directory_name(app_name) == app_name

\* a faulty version_info, on which C17 fails: the bundle version is taken
\* where the short version is present
version_info_preferring_build(ipa) ==
    IF is_some(ipa.bundle_version)
    THEN VersionInfoOk(unwrap(ipa.bundle_version), ipa.modified_date,
                       STR_Version \o unwrap(ipa.bundle_version))
    ELSE parse_version_from_filename(ipa.filename, ipa.modified_date)

\* Result<VersionInfo> of one discovered entry: Info.plist first, filename second
version_info(ipa) ==
    IF is_some(ipa.bundle_version)
    THEN LET bundle_version == unwrap(ipa.bundle_version)
             version == unwrap_or(ipa.bundle_short_version, bundle_version)
             description ==
                 IF /\ is_some(ipa.bundle_short_version)
                    /\ unwrap(ipa.bundle_short_version) # bundle_version
                 THEN STR_Version \o unwrap(ipa.bundle_short_version) \o STR_build
                          \o bundle_version \o STR_close
                 ELSE STR_Version \o version
         IN  VersionInfoOk(version, ipa.modified_date, description)
    ELSE parse_version_from_filename(ipa.filename, ipa.modified_date)

\* format!("{}/apps/{}/{}", base_url.trim_end_matches('/'), app_dir_name, ipa.filename)
download_url(base_url, app_dir_name, ipa) ==
    trim_end_matches(base_url, "/") \o STR_apps \o app_dir_name \o <<"/">> \o ipa.filename

\* the loop over the entries of one app: an entry without version info is skipped
RECURSIVE discovered_versions(_, _, _)
discovered_versions(ipas, app_dir_name, base_url) ==
    IF ipas = <<>> THEN <<>>
    ELSE LET ipa == Head(ipas)
             info == version_info(ipa)
             rest == discovered_versions(Tail(ipas), app_dir_name, base_url)
         IN  IF info.ok
             THEN <<AppVersion(info.version, info.date, info.description,
                               download_url(base_url, app_dir_name, ipa), ipa.size)>> \o rest
             ELSE rest

\* the versions lists one app can get
app_versions(app, ipa_index, base_url) ==
    LET app_dir_name == get_app_directory_name(app.name)
        discovered == IF app_dir_name \in DOMAIN ipa_index
                      THEN discovered_versions(ipa_index[app_dir_name], app_dir_name, base_url)
                      ELSE <<>>
    IN  merge_versions(app.versions, discovered)

RECURSIVE generate_apps(_, _, _)
generate_apps(apps, ipa_index, base_url) ==
    IF apps = <<>> THEN {<<>>}
    ELSE {<<[Head(apps) EXCEPT !.versions = v]>> \o rest :
             v \in app_versions(Head(apps), ipa_index, base_url),
             rest \in generate_apps(Tail(apps), ipa_index, base_url)}

\* The repositories generate_repository can return (it never returns Err).
\* The function of generator.rs has these three parameters: it takes no
\* download secret and no request token.
generate_repository(config, ipa_index, base_url) ==
    {[config EXCEPT !.apps = apps] : apps \in generate_apps(config.apps, ipa_index, base_url)}

----------------------------------------------------------------------------
(* routes/: the request handlers *)

(* handler: the one request in flight.
     pc      "idle", "open" (a download that has found its entry and is at
             File::open), "done" (the response is written)
     route   "repository", "apps", "download"; app_name, filename, token: the
             path parameters of the request; query: the token query parameter
     io      the filesystem operations made for the request, in order
     entry   the IpaEntry the download found; status, content_length, body:
             the response *)
IdleHandler ==
    [pc |-> "idle", route |-> "none", app_name |-> <<>>, filename |-> <<>>, token |-> None,
     query |-> None, io |-> <<>>, entry |-> None, status |-> 0, content_length |-> None, body |-> None]

Request(route, app_name, filename, token) ==
    [IdleHandler EXCEPT !.route = route, !.app_name = app_name, !.filename = filename,
                        !.token = token]

Respond(h, status) == [h EXCEPT !.pc = "done", !.status = status]

Scanned(h) == [h EXCEPT !.io = Append(@, "scan")]

\* the file at a path of the filesystem, None when File::open fails
lookup_file(filesystem, path) ==
    IF filesystem.root # "dir" THEN None
    ELSE LET hits == {c \in UNION {e.children : e \in {d \in filesystem.top :
                                       d.kind = "dir" /\ d.name = path[1]}} :
                         c.kind = "file" /\ c.name = path[2]}
         IN  IF hits = {} THEN None ELSE Some(CHOOSE c \in hits : TRUE)

\* a faulty scan_at_request, on which C15 fails: the index of the scan made
\* at startup, of an apps_dir that was empty then, is used for every request
scan_of_startup(filesystem) == discover_ipas([root |-> "dir", top |-> {}])

\* a faulty scan_at_request, on which C14 fails: a root that is missing or
\* no directory is taken for an empty one
scan_ignoring_root(filesystem) ==
    IF filesystem.root # "dir" THEN {[ok |-> TRUE, index |-> <<>>]}
    ELSE discover_ipas(filesystem)

\* discover_ipas(&state.apps_dir), called by each handler for each request
scan_at_request(filesystem) == discover_ipas(filesystem)

\* a faulty retained_config, on which C16 fails: the handler transforms the
\* shared configuration in place
retained_config_without_clone(config, repository) == repository

\* The configuration the application state holds after a manifest request:
\* the handler transforms (*state.config).clone(), the Arc<Config> is not
\* written to
retained_config(config, repository) == config

\* routes/repository.rs: the handler states serve_repository_json can end in
repository_responses(req) ==
    UNION {IF ~scan.ok THEN {Respond(Scanned(req), 500)}
           ELSE {[Respond(Scanned(req), 200) EXCEPT !.body = Some(repository)] :
                    repository \in generate_repository(state.config, scan.index,
                                                       state.external_base_url)} :
           scan \in scan_at_request(fs)}

serve_repository_json ==
    /\ handler.pc = "idle"
    /\ handler' \in repository_responses(Request("repository", <<>>, <<>>, None))
    /\ state' = IF handler'.status = 200
                THEN [state EXCEPT !.config = retained_config(@, unwrap(handler'.body))]
                ELSE state
    /\ UNCHANGED <<fs, call, ret>>

\* the first entry of a vector with the filename
find_by_filename(app_ipas, filename) ==
    LET hits == {i \in 1..Len(app_ipas) : app_ipas[i].filename = filename}
    IN  IF hits = {} THEN None
        ELSE Some(app_ipas[CHOOSE i \in hits : \A j \in hits : i <= j])

\* routes/apps.rs, serve_ipa up to File::open: the handler states it can reach
serve_ipa_lookup(req) ==
    IF is_some(state.download_secret) THEN {Respond(req, 403)}
    ELSE IF ~is_valid_path_component(req.app_name) THEN {Respond(req, 400)}
    ELSE IF ~is_valid_path_component(req.filename) THEN {Respond(req, 400)}
    ELSE UNION {IF ~scan.ok THEN {Respond(Scanned(req), 500)}
                ELSE IF req.app_name \notin DOMAIN scan.index
                    THEN {Respond(Scanned(req), 404)}
                ELSE LET ipa_entry_found ==
                             find_by_filename(scan.index[req.app_name], req.filename)
                     IN  IF is_none(ipa_entry_found) THEN {Respond(Scanned(req), 404)}
                         ELSE {[Scanned(req) EXCEPT !.pc = "open",
                                                    !.entry = ipa_entry_found]} :
                scan \in scan_at_request(fs)}

serve_ipa(app_name, filename) ==
    /\ handler.pc = "idle"
    /\ handler' \in serve_ipa_lookup(Request("apps", app_name, filename, None))
    /\ UNCHANGED <<state, fs, call, ret>>

\* a faulty token_matches, on which C5 fails: the token is computed without
\* the secret
token_matches_ignoring_secret(app_name, ipa, secret, token) ==
    generate_download_token(app_name, ipa.filename, None) = token

\* whether the token computed for an entry is the token of the request
token_matches(app_name, ipa, secret, token) ==
    generate_download_token(app_name, ipa.filename, secret) = token

\* the first entry of a vector whose token is the request's
find_by_token(app_name, ipas, secret, token) ==
    LET hits == {i \in 1..Len(ipas) : token_matches(app_name, ipas[i], secret, token)}
    IN  IF hits = {} THEN None
        ELSE Some(ipas[CHOOSE i \in hits : \A j \in hits : i <= j])

\* routes/apps.rs, serve_ipa_obfuscated up to File::open. The index is a
\* HashMap: the loop meets the apps in any order and stops at the first match.
serve_ipa_obfuscated_lookup(req) ==
    UNION {IF ~scan.ok THEN {Respond(Scanned(req), 500)}
           ELSE LET secret == state.download_secret
                    found == {find_by_token(a, scan.index[a], secret, unwrap(req.token)) :
                                 a \in DOMAIN scan.index} \ {None}
                IN  IF found = {} THEN {Respond(Scanned(req), 404)}
                    ELSE {[Scanned(req) EXCEPT !.pc = "open", !.entry = e] : e \in found} :
           scan \in scan_at_request(fs)}

serve_ipa_obfuscated(token) ==
    /\ handler.pc = "idle"
    /\ handler' \in serve_ipa_obfuscated_lookup(Request("download", <<>>, <<>>, Some(token)))
    /\ UNCHANGED <<state, fs, call, ret>>

\* File::open(&entry.path) and the response built around the stream: the
\* Content-Length is the size the scan recorded, the body is the file opened
open_response(h, filesystem) ==
    LET file == lookup_file(filesystem, unwrap(h.entry).path)
        opened == [h EXCEPT !.io = Append(@, "open")]
    IN  IF is_none(file) THEN Respond(opened, 500)
        ELSE [Respond(opened, 200) EXCEPT !.content_length = Some(unwrap(h.entry).size),
                                          !.body = file]

open_file ==
    /\ handler.pc = "open"
    /\ handler' = open_response(handler, fs)
    /\ UNCHANGED <<state, fs, call, ret>>

\* the response has been sent; the handler takes the next request
deliver ==
    /\ handler.pc = "done"
    /\ handler' = IdleHandler
    /\ UNCHANGED <<state, fs, call, ret>>

----------------------------------------------------------------------------
(* Values the bounded inputs are drawn from *)

SeqsUpTo(S, n) == UNION {[1..k -> S] : k \in 0..n}

DATE_2025_01_01 == <<"2", "0", "2", "5", "-", "0", "1", "-", "0", "1">>
DATE_2025_01_13 == <<"2", "0", "2", "5", "-", "0", "1", "-", "1", "3">>
STR_Custom == <<"C", "u", "s", "t", "o", "m">>
STR_Auto == <<"A", "u", "t", "o">>
URL_old == <<"o", "l", "d">>
URL_new1 == <<"n", "e", "w", "1">>
URL_new2 == <<"n", "e", "w", "2">>

VersionStrings == {<<"1">>, <<"2">>}
DateStrings == {DATE_2025_01_01, DATE_2025_01_13}

\* records as a configuration file can hold them
ManualRecords ==
    {AppVersion(v, d, STR_Custom, URL_old, 1000) : v \in VersionStrings, d \in DateStrings}

\* records as generate_repository can build them from files
DiscoveredRecords ==
    {AppVersion(v, d, STR_Auto, u[1], u[2]) :
        v \in VersionStrings, d \in DateStrings, u \in {<<URL_new1, 2000>>, <<URL_new2, 3000>>}}

Idle == <<>>

----------------------------------------------------------------------------
(* SpecMerge: merge_versions applied to every pair of bounded lists *)

InitMerge ==
    /\ call \in {[fn |-> "merge_versions", manual_versions |-> m, discovered_versions |-> d] :
                    m \in SeqsUpTo(ManualRecords, MaxManual),
                    d \in SeqsUpTo(DiscoveredRecords, MaxDiscovered)}
    /\ ret = None
    /\ state = Idle /\ fs = Idle /\ handler = Idle

CallMergeVersions ==
    /\ call # Idle /\ call.fn = "merge_versions" /\ ret = None
    /\ \E merged \in merge_versions(call.manual_versions, call.discovered_versions) :
          ret' = Some(merged)
    /\ UNCHANGED <<state, fs, handler, call>>

SpecMerge == InitMerge /\ [][CallMergeVersions]_vars

Merged == call # Idle /\ call.fn = "merge_versions" /\ ret # None

VersionsOf(list) == {list[i].version : i \in 1..Len(list)}

\* the last record of list that carries version v
LastWith(list, v) ==
    list[CHOOSE i \in 1..Len(list) :
            list[i].version = v /\ \A j \in (i + 1)..Len(list) : list[j].version # v]

\* C1: for a version string that is in the manual list and in the discovered
\* list, the output holds one record for it, with the date and description of
\* the manual record (the last one, if the manual list repeats the version)
\* and the downloadURL and size of the discovered record (the last one), the
\* manual date being kept also when the discovered date is later.
Thm_C1_ManualMetadataKept ==
    Merged =>
        \A v \in VersionsOf(call.manual_versions) \cap VersionsOf(call.discovered_versions) :
            LET m == LastWith(call.manual_versions, v)
                d == LastWith(call.discovered_versions, v)
                out == unwrap(ret)
            IN  /\ Cardinality({i \in 1..Len(out) : out[i].version = v}) = 1
                /\ \E i \in 1..Len(out) :
                      out[i] = AppVersion(v, m.date, m.localized_description,
                                          d.download_url, d.size)

\* a merge in which a discovered record has the version of a manual record
\* and a later date
Wit_C1_LaterDiscoveredDate ==
    /\ Merged
    /\ \E i \in 1..Len(call.manual_versions), j \in 1..Len(call.discovered_versions) :
          /\ call.manual_versions[i].version = call.discovered_versions[j].version
          /\ str_cmp(call.discovered_versions[j].date, call.manual_versions[i].date) = 1

\* C3: the version strings of the output are exactly those of the manual list
\* together with those of the discovered list; with an empty manual list they
\* are exactly those of the discovered list.
Thm_C3_VersionSetIsUnion ==
    Merged =>
        /\ VersionsOf(unwrap(ret)) =
              VersionsOf(call.manual_versions) \cup VersionsOf(call.discovered_versions)
        /\ call.manual_versions = <<>> =>
              VersionsOf(unwrap(ret)) = VersionsOf(call.discovered_versions)

\* a merge of a non-empty manual list with a discovered version it lacks
Wit_C3_NewDiscoveredVersion ==
    /\ Merged
    /\ call.manual_versions # <<>>
    /\ VersionsOf(call.discovered_versions) \ VersionsOf(call.manual_versions) # {}
    /\ VersionsOf(call.manual_versions) \ VersionsOf(call.discovered_versions) # {}

----------------------------------------------------------------------------
(* SpecParse: parse_version_from_filename applied to bounded filenames *)

StemAlphabet == {"a", "1", "_"}
Extensions == {STR_ipa, <<".", "I", "P", "A">>, <<".", "t", "x", "t">>, <<>>}

InitParse ==
    /\ call \in {[fn |-> "parse_version_from_filename", filename |-> stem \o ext,
                  file_date |-> d] :
                    stem \in StringsUpTo(StemAlphabet, MaxStemLen), ext \in Extensions,
                    d \in DateStrings}
    /\ ret = None
    /\ state = Idle /\ fs = Idle /\ handler = Idle

CallParseVersion ==
    /\ call # Idle /\ call.fn = "parse_version_from_filename" /\ ret = None
    /\ ret' = Some(parse_version_from_filename(call.filename, call.file_date))
    /\ UNCHANGED <<state, fs, handler, call>>

SpecParse == InitParse /\ [][CallParseVersion]_vars

Parsed == call # Idle /\ call.fn = "parse_version_from_filename" /\ ret # None

\* the positions of '_' in s, in increasing order
Underscores(s) == {i \in 1..Len(s) : s[i] = "_"}

\* C8: an error when the filename does not end with ".ipa"; otherwise, on the
\* stem split at '_': three parts give the third as version and a description
\* that contains the second; two parts give the second as version, no tweak;
\* one part or four and more give the whole stem, no tweak; the date is the
\* date argument in every successful case.
Thm_C8_ParseVersionFromFilename ==
    Parsed =>
        LET r == unwrap(ret)
            f == call.filename
        IN  IF ~ends_with(f, STR_ipa) THEN ~r.ok
            ELSE LET stem == SubSeq(f, 1, Len(f) - 4)
                     us == Underscores(stem)
                     n == Cardinality(us) + 1
                     lo == CHOOSE i \in us : \A j \in us : i <= j
                     hi == CHOOSE i \in us : \A j \in us : j <= i
                 IN  /\ r.ok
                     /\ r.date = call.file_date
                     /\ n = 3 => /\ r.version = SubSeq(stem, hi + 1, Len(stem))
                                 /\ contains(r.description, SubSeq(stem, lo + 1, hi - 1))
                                 /\ contains(r.description, STR_tweak)
                     /\ n = 2 => /\ r.version = SubSeq(stem, hi + 1, Len(stem))
                                 /\ r.description = STR_Version \o r.version
                     /\ n \notin {2, 3} => /\ r.version = stem
                                           /\ r.description = STR_Version \o r.version

\* a parse of a three-part filename with distinct second and third parts
Wit_C8_ThreeParts ==
    /\ Parsed
    /\ unwrap(ret).ok
    /\ Cardinality(Underscores(call.filename)) = 2
    /\ unwrap(ret).version = <<"1">>
    /\ contains(unwrap(ret).description, STR_tweak \o <<"a">>)

----------------------------------------------------------------------------
(* SpecToken: generate_download_token on two inputs that differ in at most
   one of app name, filename and secret *)

TokenAlphabet == {"a", "|"}
TokenStrings == StringsUpTo(TokenAlphabet, MaxTokenFieldLen)
TokenInputs ==
    [app_name : TokenStrings, filename : TokenStrings,
     secret : {None} \cup {Some(x) : x \in TokenStrings}]

DiffersIn(x, y) == {k \in {"app_name", "filename", "secret"} : x[k] # y[k]}

InitToken ==
    /\ call \in {c \in [fn : {"generate_download_token"}, first : TokenInputs,
                         second : TokenInputs] :
                    Cardinality(DiffersIn(c.first, c.second)) <= 1}
    /\ ret = None
    /\ state = Idle /\ fs = Idle /\ handler = Idle

CallGenerateToken ==
    /\ call # Idle /\ call.fn = "generate_download_token" /\ ret = None
    /\ ret' = Some(<<generate_download_token(call.first.app_name, call.first.filename,
                                             call.first.secret),
                     generate_download_token(call.second.app_name, call.second.filename,
                                             call.second.secret)>>)
    /\ UNCHANGED <<state, fs, handler, call>>

SpecToken == InitToken /\ [][CallGenerateToken]_vars

Tokenized == call # Idle /\ call.fn = "generate_download_token" /\ ret # None

\* C6: two inputs that differ in exactly one of app name, filename and secret
\* (a different secret, or a secret present against absent, included) give
\* different tokens; identical inputs give the identical token.
Thm_C6_OneInputChangesToken ==
    Tokenized =>
        /\ call.first = call.second => unwrap(ret)[1] = unwrap(ret)[2]
        /\ Cardinality(DiffersIn(call.first, call.second)) = 1 =>
              unwrap(ret)[1] # unwrap(ret)[2]

\* tokens computed for a secret present against absent, the secret being one
\* that starts with the separator
Wit_C6_SecretPresentVsAbsent ==
    /\ Tokenized
    /\ call.first.secret = None
    /\ call.second.secret = Some(<<"|">>)
    /\ call.first.filename = <<"a">>
    /\ unwrap(ret)[1] # unwrap(ret)[2]

----------------------------------------------------------------------------
(* Spec: the server, its requests, and the filesystem changing under it *)

APP_A == <<"A">>
DIR_src == <<"s", "r", "c">>
SECRET == <<"k">>
BASE_URL == <<"h", ":", "/", "/", "x">>

NoPlist == [bundle_identifier |-> None, bundle_version |-> None,
            bundle_short_version |-> None, bundle_name |-> None,
            bundle_display_name |-> None]

File(name, size, mtime, archive) ==
    [name |-> name, kind |-> "file", size |-> size, mtime |-> mtime, archive |-> archive,
     children |-> {}]

\* no archive: the filename gives the version "1"
FILE_A_1 == File(<<"A", "_", "1", ".", "i", "p", "a">>, 10, 1736730000, None)
\* no archive, three parts: version "1" again, tweak "7", an older date
FILE_A_7_1 == File(<<"A", "_", "7", "_", "1", ".", "i", "p", "a">>, 20, 1735693200, None)
\* no archive, the extension in upper case
FILE_B_2 == File(<<"B", "_", "2", ".", "I", "P", "A">>, 30, 1736730000, None)
\* an archive with an Info.plist: build "3", short version "2"
FILE_C ==
    File(<<"C", ".", "i", "p", "a">>, 40, 1735603200,
         Some(<<[name |-> STR_Payload \o <<"C">> \o STR_app_Info_plist,
                 plist |-> Some([NoPlist EXCEPT !.bundle_identifier = Some(<<"i", "d">>),
                                                !.bundle_version = Some(<<"3">>),
                                                !.bundle_short_version = Some(<<"2">>),
                                                !.bundle_name = Some(<<"C">>)])]>>))

\* the files that come and go: [dir, file]
Pool ==
    {[dir |-> APP_A, file |-> FILE_A_1], [dir |-> APP_A, file |-> FILE_A_7_1],
     [dir |-> APP_A, file |-> FILE_B_2], [dir |-> APP_A, file |-> FILE_C],
     [dir |-> DIR_src, file |-> FILE_A_1]}

BaseUrls == {BASE_URL, BASE_URL \o <<"/">>}

\* the versions lists of the configuration files the server is started with
CONFIG_VERSIONS ==
    {<<>>,
     <<AppVersion(<<"1">>, DATE_2025_01_01, STR_Custom, URL_old, 1000),
       AppVersion(<<"2">>, DATE_2025_01_13, STR_Custom, URL_old, 1000)>>}

Config(manual_versions) == [apps |-> <<[name |-> APP_A, versions |-> manual_versions]>>]

AppStates ==
    {[config |-> Config(manual),
      external_base_url |-> base,
      auth_token |-> None,
      download_secret |-> secret] :
        manual \in CONFIG_VERSIONS,
        base \in BaseUrls,
        secret \in {None, Some(SECRET)}}

\* the path parameters of the direct download requests
RequestPaths ==
    {<<s.dir, s.file.name>> : s \in Pool}
        \cup {<<<<".", ".">>, FILE_A_1.name>>, <<APP_A, <<"a", "/", "b">>>>}

\* the path parameter of the obfuscated download requests
RequestTokens ==
    {generate_download_token(s.dir, s.file.name, secret) :
        s \in Pool, secret \in {None, Some(SECRET)}}
        \cup {<<"?">>}

Init ==
    /\ state \in AppStates
    /\ fs = [root |-> "dir", top |-> {}]
    /\ handler = IdleHandler
    /\ call = Idle /\ ret = None

\* the filesystem may change while no response is waiting to be sent
FsMayChange == handler.pc \in {"idle", "open"}

has_dir(filesystem, name) == \E e \in filesystem.top : e.name = name

\* a file is written into an app directory (the directory is made if needed)
add_file(slot) ==
    /\ FsMayChange
    /\ fs.root = "dir"
    /\ is_none(lookup_file(fs, <<slot.dir, slot.file.name>>))
    /\ fs' = [fs EXCEPT !.top =
                IF has_dir(fs, slot.dir)
                THEN {IF e.name = slot.dir
                      THEN [e EXCEPT !.children = @ \cup {slot.file}] ELSE e : e \in @}
                ELSE @ \cup {[name |-> slot.dir, kind |-> "dir", children |-> {slot.file}]}]
    /\ UNCHANGED <<state, handler, call, ret>>

\* a file is deleted (its directory stays)
remove_file(slot) ==
    /\ FsMayChange
    /\ lookup_file(fs, <<slot.dir, slot.file.name>>) = Some(slot.file)
    /\ fs' = [fs EXCEPT !.top =
                {IF e.name = slot.dir
                 THEN [e EXCEPT !.children = @ \ {slot.file}] ELSE e : e \in @}]
    /\ UNCHANGED <<state, handler, call, ret>>

\* apps_dir is deleted, or replaced by a plain file
remove_root ==
    /\ FsMayChange
    /\ fs.root = "dir"
    /\ \E kind \in {"missing", "file"} : fs' = [root |-> kind, top |-> {}]
    /\ UNCHANGED <<state, handler, call, ret>>

\* apps_dir is made again, empty
restore_root ==
    /\ FsMayChange
    /\ fs.root # "dir"
    /\ fs' = [root |-> "dir", top |-> {}]
    /\ UNCHANGED <<state, handler, call, ret>>

Next ==
    \/ serve_repository_json
    \/ \E path \in RequestPaths : serve_ipa(path[1], path[2])
    \/ \E token \in RequestTokens : serve_ipa_obfuscated(token)
    \/ open_file
    \/ deliver
    \/ \E slot \in Pool : add_file(slot)
    \/ \E slot \in Pool : remove_file(slot)
    \/ remove_root
    \/ restore_root

Spec == Init /\ [][Next]_vars

----------------------------------------------------------------------------
(* SpecGenerate: generate_repository applied to bounded configurations and
   to every index a scan of the files of app A can return *)

IndexesOf(dir_name, files) ==
    {<<>>} \cup UNION {{[n \in {dir_name} |-> v] :
                          v \in Orderings({ipa_entry(dir_name, f) : f \in chosen})} :
                      chosen \in (SUBSET files) \ {{}}}

InitGenerate ==
    /\ call \in {[fn |-> "generate_repository", config |-> Config(m), ipa_index |-> idx,
                  base_url |-> base] :
                    m \in SeqsUpTo(ManualRecords, MaxManual),
                    idx \in IndexesOf(APP_A, {FILE_A_1, FILE_A_7_1, FILE_B_2, FILE_C}),
                    base \in BaseUrls}
    /\ ret = None
    /\ state = Idle /\ fs = Idle /\ handler = Idle

CallGenerateRepository ==
    /\ call # Idle /\ call.fn = "generate_repository" /\ ret = None
    /\ \E repository \in generate_repository(call.config, call.ipa_index, call.base_url) :
          ret' = Some(repository)
    /\ UNCHANGED <<state, fs, handler, call>>

SpecGenerate == InitGenerate /\ [][CallGenerateRepository]_vars

Generated == call # Idle /\ call.fn = "generate_repository" /\ ret # None

SortedByDateDescending(versions) ==
    \A i, j \in 1..Len(versions) : i < j => str_cmp(versions[i].date, versions[j].date) >= 0

OnePerVersion(versions) ==
    \A i, j \in 1..Len(versions) : i # j => versions[i].version # versions[j].version

\* C2: in every manifest generate_repository returns, the versions list of
\* every app is sorted by date descending under string comparison and holds
\* at most one record per version string.
Thm_C2_SortedAndUnique ==
    Generated =>
        \A k \in 1..Len(unwrap(ret).apps) :
            /\ SortedByDateDescending(unwrap(ret).apps[k].versions)
            /\ OnePerVersion(unwrap(ret).apps[k].versions)

\* a manifest built from a manual list that repeats a version and an index
\* with two files of one version, and holding records of different dates
Wit_C2_DuplicatesInBothInputs ==
    /\ Generated
    /\ ~OnePerVersion(call.config.apps[1].versions)
    /\ APP_A \in DOMAIN call.ipa_index
    /\ \E i, j \in 1..Len(call.ipa_index[APP_A]) :
          /\ i # j
          /\ version_info(call.ipa_index[APP_A][i]).ok
          /\ version_info(call.ipa_index[APP_A][j]).ok
          /\ version_info(call.ipa_index[APP_A][i]).version
                = version_info(call.ipa_index[APP_A][j]).version
    /\ \E i, j \in 1..Len(unwrap(ret).apps[1].versions) :
          unwrap(ret).apps[1].versions[i].date # unwrap(ret).apps[1].versions[j].date

----------------------------------------------------------------------------
(* Properties of Spec *)

STR_download == <<"/", "d", "o", "w", "n", "l", "o", "a", "d", "/">>

\* the direct and the obfuscated URL of a file of an app directory
DirectUrl(dir_name, filename) ==
    trim_end_matches(state.external_base_url, "/") \o STR_apps \o dir_name \o <<"/">> \o filename

ObfuscatedUrl(dir_name, filename) ==
    trim_end_matches(state.external_base_url, "/") \o STR_download
        \o generate_download_token(dir_name, filename, state.download_secret)

\* a manifest has been answered; the filesystem is as its scan saw it (it
\* does not change while a response waits to be sent)
ManifestAnswered ==
    handler # Idle /\ handler.pc = "done" /\ handler.route = "repository" /\ handler.status = 200

\* the archive files a scan of the filesystem finds in directory dir_name
FilesFound(dir_name) ==
    IF fs.root # "dir" THEN {}
    ELSE {c \in UNION {e.children : e \in {d \in fs.top : d.kind = "dir" /\ d.name = dir_name}} :
             is_ipa_file(c)}

ManifestVersions(k) == unwrap(handler.body).apps[k].versions

\* C4 (as claimed): in a manifest, every file of a configured app that yields
\* a version has given a downloadURL of the form base/download/<token> when a
\* download secret is configured, and base/apps/<dir>/<filename> when none
\* is: the record of its version carries such a URL of a file of that version.
Cex_C4_DownloadUrlForm ==
    ManifestAnswered =>
        \A k \in 1..Len(state.config.apps) :
            LET dir_name == state.config.apps[k].name
                yields(c) == version_info(ipa_entry(dir_name, c))
            IN  \A c \in {x \in FilesFound(dir_name) : yields(x).ok} :
                    \E i \in 1..Len(ManifestVersions(k)) :
                        /\ ManifestVersions(k)[i].version = yields(c).version
                        /\ \E c2 \in {x \in FilesFound(dir_name) :
                                          yields(x).ok /\ yields(x).version = yields(c).version} :
                              ManifestVersions(k)[i].download_url =
                                  IF is_some(state.download_secret)
                                  THEN ObfuscatedUrl(dir_name, c2.name)
                                  ELSE DirectUrl(dir_name, c2.name)

\* the version the name of an archive file stands for, whatever the case of
\* its extension
VersionOfName(filename) ==
    LET stem == SubSeq(filename, 1, Len(filename) - 4)
        parts == split(stem, "_")
    IN  IF Len(parts) \in {2, 3} THEN parts[Len(parts)] ELSE stem

\* C7 (as claimed): in a manifest, every archive file found in the directory
\* of a configured app whose metadata extraction failed has a version entry
\* derived from its filename; when no other file and no manual record has
\* that version, the entry has the file's modification date and a
\* downloadURL that points at the file.
Cex_C7_FallbackVersionForEveryFile ==
    ManifestAnswered =>
        \A k \in 1..Len(state.config.apps) :
            LET dir_name == state.config.apps[k].name
                failed == {c \in FilesFound(dir_name) : ~extract_ipa_info(c).ok}
            IN  \A c \in failed :
                    \E i \in 1..Len(ManifestVersions(k)) :
                        LET r == ManifestVersions(k)[i]
                        IN  /\ r.version = VersionOfName(c.name)
                            /\ (/\ \A c2 \in FilesFound(dir_name) \ {c} :
                                       ~version_info(ipa_entry(dir_name, c2)).ok
                                       \/ version_info(ipa_entry(dir_name, c2)).version # r.version
                                /\ r.version \notin VersionsOf(state.config.apps[k].versions))
                               => /\ r.date = format_date(c.mtime)
                                  /\ r.download_url \in {DirectUrl(dir_name, c.name),
                                                         ObfuscatedUrl(dir_name, c.name)}

ScanSucceeds == fs.root = "dir" /\ \A e \in fs.top : e.kind # "err"

\* the <<directory name, file>> pairs a scan of the filesystem puts in its index
PairsFound ==
    IF ~ScanSucceeds THEN {}
    ELSE UNION {{<<e.name, c>> : c \in {x \in e.children : is_ipa_file(x)}} :
                   e \in {d \in fs.top : d.kind = "dir" /\ d.name \notin SKIP_DIRS}}

\* C5: an obfuscated download scans the filesystem as it is at the request;
\* it goes on to open an entry only if that entry is in this scan and the
\* token of its (directory, filename) under the configured secret is the
\* token of the request; it answers 404 exactly when the scan succeeded and
\* no pair of it has the token; and a 200 carries the file at the path of
\* the entry that matched.
Thm_C5_ObfuscatedLookup ==
    [][/\ (handler.pc = "idle" /\ handler'.route = "download") =>
            LET token == unwrap(handler'.token)
                matching == {x \in PairsFound :
                               generate_download_token(x[1], x[2].name, state.download_secret)
                                   = token}
            IN  /\ handler'.io = <<"scan">>
                /\ (handler'.pc = "done" /\ handler'.status = 404)
                       <=> (ScanSucceeds /\ matching = {})
                /\ handler'.pc = "open" =>
                       \E x \in matching : /\ unwrap(handler'.entry).path = <<x[1], x[2].name>>
                                           /\ unwrap(handler'.entry).size = x[2].size
                /\ handler'.pc \in {"open", "done"}
       /\ (handler.pc = "open" /\ handler.route = "download" /\ handler'.pc = "done") =>
            /\ handler'.token = handler.token /\ handler'.entry = handler.entry
            /\ handler'.status = 200 =>
                  /\ generate_download_token(unwrap(handler.entry).path[1],
                                             unwrap(handler.entry).path[2],
                                             state.download_secret) = unwrap(handler.token)
                  /\ handler'.body = lookup_file(fs, unwrap(handler.entry).path)
                  /\ is_some(handler'.body)
      ]_vars

\* an obfuscated download, under a configured secret, that served a file
Wit_C5_ServedByToken ==
    /\ handler # Idle /\ handler.route = "download" /\ handler.pc = "done"
    /\ handler.status = 200
    /\ is_some(state.download_secret)
    /\ handler.token = Some(generate_download_token(APP_A, FILE_A_1.name, Some(SECRET)))

\* C10: no scan of the filesystem returns an index with a skip-listed
\* directory name as a key or with an entry of a file of such a directory,
\* and no download goes on to open a file of such a directory.
Thm_C10_SkipDirsNeverSurface ==
    /\ \A scan \in discover_ipas(fs) :
          scan.ok =>
              \A n \in DOMAIN scan.index :
                  /\ n \notin SKIP_DIRS
                  /\ \A i \in 1..Len(scan.index[n]) :
                        /\ scan.index[n][i].path[1] \notin SKIP_DIRS
                        /\ scan.index[n][i].app_name \notin SKIP_DIRS
    /\ (handler # Idle /\ is_some(handler.entry)) =>
          unwrap(handler.entry).path[1] \notin SKIP_DIRS

\* a download of a valid archive that lies in the skip-listed directory src
\* has been answered after a scan, next to a served app directory
Wit_C10_ArchiveInSkippedDir ==
    /\ is_some(lookup_file(fs, <<DIR_src, FILE_A_1.name>>))
    /\ is_some(lookup_file(fs, <<APP_A, FILE_A_1.name>>))
    /\ handler.pc = "done" /\ handler.route = "apps"
    /\ handler.app_name = DIR_src /\ handler.filename = FILE_A_1.name
    /\ handler.io = <<"scan">>
    /\ handler.status = 404

----------------------------------------------------------------------------
(* SpecValid: direct downloads whose two path components range over every
   string of bounded length over a letter, '.', '/' and '\', and over the
   names of one file that is there, with and without a download secret *)

PathAlphabet == {"a", ".", "/", "\\"}

InitValid ==
    /\ state \in {st \in AppStates :
                     st.config = Config(<<>>) /\ st.external_base_url = BASE_URL}
    /\ fs = [root |-> "dir",
             top |-> {[name |-> APP_A, kind |-> "dir", children |-> {FILE_A_1}]}]
    /\ handler = IdleHandler
    /\ call = Idle /\ ret = None

\* a direct download of any two strings of bounded length
serve_ipa_any ==
    /\ handler.pc = "idle"
    /\ \E m, n \in 0..MaxComponentLen :
          \E app_name \in [1..m -> PathAlphabet], filename \in [1..n -> PathAlphabet] :
              serve_ipa(app_name, filename)

\* a direct download of the file that is there
serve_ipa_present == serve_ipa(APP_A, FILE_A_1.name)

NextValid ==
    \/ serve_ipa_any
    \/ serve_ipa_present
    \/ open_file
    \/ deliver

SpecValid == InitValid /\ [][NextValid]_vars

\* what the validator is said to reject
Rejected(s) ==
    \/ s = <<>>
    \/ s[1] = "."
    \/ \E i \in 1..(Len(s) - 1) : s[i] = "." /\ s[i + 1] = "."
    \/ \E i \in 1..Len(s) : s[i] = "/" \/ s[i] = "\\"

DirectRequest == handler # Idle /\ handler.route = "apps"

\* C9: is_valid_path_component is false exactly on the empty string, on a
\* string that starts with '.', contains ".." or contains '/' or '\'; a
\* direct download with such an app name or filename is answered with an
\* error and no scan and no open is made for it, and (no secret configured) a
\* request with two other components is scanned for.
Thm_C9_PathComponentsValidated ==
    DirectRequest =>
        /\ is_valid_path_component(handler.app_name) <=> ~Rejected(handler.app_name)
        /\ is_valid_path_component(handler.filename) <=> ~Rejected(handler.filename)
        /\ (Rejected(handler.app_name) \/ Rejected(handler.filename)) =>
              /\ handler.pc = "done"
              /\ handler.status \in {400, 403}
              /\ handler.io = <<>>
              /\ is_none(handler.entry) /\ is_none(handler.body)
        /\ (is_none(state.download_secret) /\ handler.pc = "done") =>
              (handler.status = 400
                  <=> (Rejected(handler.app_name) \/ Rejected(handler.filename)))
        /\ (is_none(state.download_secret)
                /\ ~Rejected(handler.app_name) /\ ~Rejected(handler.filename)) =>
              handler.io # <<>> /\ handler.io[1] = "scan"

\* a direct download, no secret configured, of a filename that holds ".."
\* after its first character has been refused
Wit_C9_DotDotInsideRefused ==
    /\ DirectRequest
    /\ is_none(state.download_secret)
    /\ handler.app_name = <<"a">>
    /\ handler.filename = <<"a", ".", ".">>
    /\ handler.pc = "done" /\ handler.status = 400 /\ handler.io = <<>>

----------------------------------------------------------------------------
(* SpecScan: discover_ipas on bounded filesystems whose root is a directory,
   and generate_repository on the index it returns *)

\* a file that passes is_file and on which fs::metadata then fails
FILE_GONE ==
    [File(<<"G", "_", "1", ".", "i", "p", "a">>, 50, 1736730000, None) EXCEPT !.kind = "gone"]
\* an entry of an app directory that WalkDir fails to read
ENTRY_ERR ==
    [File(<<"E", "_", "1", ".", "i", "p", "a">>, 0, 0, None) EXCEPT !.kind = "err"]
\* a file that is no archive by its extension
FILE_TXT == File(<<"r", ".", "t", "x", "t">>, 60, 1736730000, None)
\* a subdirectory that holds an archive file
SUBDIR_N ==
    [File(<<"n">>, 0, 0, None) EXCEPT !.kind = "dir", !.children = {FILE_A_1}]

ScanChildren == {FILE_A_1, FILE_C, FILE_B_2, FILE_GONE, ENTRY_ERR, FILE_TXT, SUBDIR_N}

APP_B == <<"B">>

\* what apps_dir can hold next to the directory of app A
ScanTopExtras ==
    {{},
     {[name |-> <<"t", ".", "i", "p", "a">>, kind |-> "file", children |-> {}]},
     {[name |-> <<"u">>, kind |-> "err", children |-> {}]},
     {[name |-> DIR_src, kind |-> "dir", children |-> {FILE_A_1}]},
     {[name |-> APP_B, kind |-> "dir", children |-> {FILE_A_1}]}}

ScanFilesystems ==
    {[root |-> "dir",
      top |-> {[name |-> APP_A, kind |-> "dir", children |-> children]} \cup extras] :
        children \in SUBSET ScanChildren, extras \in ScanTopExtras}

InitScan ==
    /\ fs \in ScanFilesystems
    /\ call = [fn |-> "discover_ipas"]
    /\ ret = None
    /\ state = Idle /\ handler = Idle

CallDiscoverIpas ==
    /\ call.fn = "discover_ipas" /\ ret = None
    /\ \E scan \in discover_ipas(fs) : ret' = Some(scan)
    /\ UNCHANGED <<state, fs, handler, call>>

\* the manifest request goes on with the index of a successful scan
CallGenerateOnScan ==
    /\ call.fn = "discover_ipas" /\ ret # None /\ unwrap(ret).ok
    /\ call' = [fn |-> "generate_repository", config |-> Config(<<>>),
                ipa_index |-> unwrap(ret).index, base_url |-> BASE_URL]
    /\ \E repository \in generate_repository(call'.config, call'.ipa_index, call'.base_url) :
          ret' = Some(repository)
    /\ UNCHANGED <<state, fs, handler>>

NextScan == CallDiscoverIpas \/ CallGenerateOnScan

SpecScan == InitScan /\ [][NextScan]_vars

ScanReturned == call # Idle /\ call.fn = "discover_ipas" /\ ret # None

\* the last four characters of a name are ".ipa" in any case, after a stem
NamedAsArchive(name) ==
    /\ Len(name) > 4
    /\ [i \in 1..4 |-> to_ascii_lowercase(name[Len(name) - 4 + i])] = STR_ipa

\* the regular files directly inside a directory that are named as archives
ArchivesAtDepthOne(dir) ==
    {c \in dir.children : c.kind = "file" /\ NamedAsArchive(c.name)}

\* C11: the keys of a returned index are exactly the names of the scanned
\* directories that hold an archive file at depth one, and every key maps to
\* a non-empty vector; a directory with no such file (none at all, archives
\* only in a subdirectory, only skipped candidates) is no key.
Thm_C11_NoEmptyVectors ==
    (ScanReturned /\ unwrap(ret).ok) =>
        LET index == unwrap(ret).index
        IN  /\ \A n \in DOMAIN index : Len(index[n]) > 0
            /\ DOMAIN index =
                  {e.name : e \in {d \in fs.top : /\ d.kind = "dir"
                                                  /\ d.name \notin SKIP_DIRS
                                                  /\ ArchivesAtDepthOne(d) # {}}}

\* a scan that has returned an index without app A, whose directory holds an
\* archive in a subdirectory, a candidate that is skipped, and no other archive
Wit_C11_OnlyNestedAndSkipped ==
    /\ ScanReturned /\ unwrap(ret).ok
    /\ APP_A \notin DOMAIN unwrap(ret).index
    /\ APP_B \in DOMAIN unwrap(ret).index
    /\ \E e \in fs.top :
          e.name = APP_A /\ {SUBDIR_N, FILE_GONE, ENTRY_ERR} \subseteq e.children

\* C12: every archive file at depth one whose metadata extraction fails has
\* an entry in the index, with its filename, path, size and modification date
\* and with the four bundle fields absent.
Thm_C12_ExtractionFailureKeepsEntry ==
    (ScanReturned /\ unwrap(ret).ok) =>
        \A e \in {d \in fs.top : d.kind = "dir" /\ d.name \notin SKIP_DIRS} :
            \A c \in {x \in ArchivesAtDepthOne(e) : ~extract_ipa_info(x).ok} :
                /\ e.name \in DOMAIN unwrap(ret).index
                /\ \E i \in 1..Len(unwrap(ret).index[e.name]) :
                      LET entry == unwrap(ret).index[e.name][i]
                      IN  /\ entry.filename = c.name
                          /\ entry.path = <<e.name, c.name>>
                          /\ entry.size = c.size
                          /\ entry.modified_date = format_date(c.mtime)
                          /\ is_none(entry.bundle_identifier)
                          /\ is_none(entry.bundle_version)
                          /\ is_none(entry.bundle_short_version)
                          /\ is_none(entry.bundle_name)

\* a scan whose index holds the entry of a file that is no zip archive next
\* to the entry of one that is
Wit_C12_UnreadableNextToReadable ==
    /\ ScanReturned /\ unwrap(ret).ok
    /\ APP_A \in DOMAIN unwrap(ret).index
    /\ \E i, j \in 1..Len(unwrap(ret).index[APP_A]) :
          /\ unwrap(ret).index[APP_A][i].filename = FILE_A_1.name
          /\ is_none(unwrap(ret).index[APP_A][i].bundle_version)
          /\ unwrap(ret).index[APP_A][j].filename = FILE_C.name
          /\ unwrap(ret).index[APP_A][j].bundle_version = Some(<<"3">>)

\* C13 (as claimed): apps_dir being a directory, the scan returns an index
\* whatever entry or file under it cannot be read.
Cex_C13_EntryErrorsNeverAbort ==
    (ScanReturned /\ fs.root = "dir") => unwrap(ret).ok

----------------------------------------------------------------------------
(* Spec: the requests and the filesystem at the time they are made *)

\* the step is a request taken up by a handler
RequestStep == handler.pc = "idle" /\ handler'.pc # "idle"

\* C14: when apps_dir is missing or no directory, discover_ipas returns an
\* error, and a request made then is answered at once with an error status
\* that is not 404, without a manifest and without a file: 500 for the
\* manifest and for the obfuscated download, 500, 403 or 400 for the direct
\* download; the state is left as it was and the handler is free again after
\* the response.
Thm_C14_MissingRootIsAnError ==
    [][/\ (RequestStep /\ fs.root # "dir") =>
            /\ \A scan \in discover_ipas(fs) : ~scan.ok
            /\ handler'.pc = "done"
            /\ handler'.status \in {400, 403, 500}
            /\ handler'.route \in {"repository", "download"} => handler'.status = 500
            /\ (handler'.route = "apps" /\ handler'.status # 500) =>
                  \/ is_some(state.download_secret)
                  \/ ~is_valid_path_component(handler'.app_name)
                  \/ ~is_valid_path_component(handler'.filename)
            /\ is_none(handler'.body) /\ is_none(handler'.entry)
            /\ state' = state
       /\ (handler.pc = "done" /\ handler' # handler) => handler' = IdleHandler
      ]_vars

\* the manifest has been asked for while apps_dir is missing, and refused
Wit_C14_ManifestRefused ==
    /\ fs.root = "missing"
    /\ handler.pc = "done" /\ handler.route = "repository"
    /\ handler.io = <<"scan">> /\ handler.status = 500

\* the files of directory dir_name that give a version entry, as the
\* filesystem is now
FilesYielding(dir_name) ==
    {c \in FilesFound(dir_name) : version_info(ipa_entry(dir_name, c)).ok}

YieldedVersion(dir_name, c) == version_info(ipa_entry(dir_name, c)).version

\* C15: every request answers from the filesystem as it is when the request
\* is made.  A manifest: every file now in the directory of a configured app
\* that gives a version has a record of that version carrying the URL of such
\* a file, and every record either carries the URL of a file that is there
\* now or is a manual record as configured, of a version no file there gives.
\* A download whose scan succeeds goes on to open a file exactly when the
\* file asked for (by name, no secret configured, or by token) is there now,
\* and answers 404 otherwise; the file opened is the file that is there at
\* the open, with status 200, and 500 if it is gone by then.
Thm_C15_AnswersFromCurrentFilesystem ==
    [][/\ (RequestStep /\ handler'.route = "repository" /\ handler'.status = 200) =>
            \A k \in 1..Len(state.config.apps) :
                LET dir_name == state.config.apps[k].name
                    manual == state.config.apps[k].versions
                    versions == unwrap(handler'.body).apps[k].versions
                IN  /\ \A c \in FilesYielding(dir_name) :
                          \E i \in 1..Len(versions) :
                              /\ versions[i].version = YieldedVersion(dir_name, c)
                              /\ \E c2 \in FilesYielding(dir_name) :
                                    /\ YieldedVersion(dir_name, c2) = versions[i].version
                                    /\ versions[i].download_url = DirectUrl(dir_name, c2.name)
                                    /\ versions[i].size = c2.size
                    /\ \A i \in 1..Len(versions) :
                          \/ \E c \in FilesYielding(dir_name) :
                                /\ versions[i].version = YieldedVersion(dir_name, c)
                                /\ versions[i].download_url = DirectUrl(dir_name, c.name)
                          \/ /\ \E j \in 1..Len(manual) : manual[j] = versions[i]
                             /\ \A c \in FilesYielding(dir_name) :
                                   YieldedVersion(dir_name, c) # versions[i].version
       /\ (/\ RequestStep /\ handler'.route = "apps" /\ ScanSucceeds
           /\ is_none(state.download_secret)
           /\ is_valid_path_component(handler'.app_name)
           /\ is_valid_path_component(handler'.filename)) =>
            LET there == {x \in PairsFound : /\ x[1] = handler'.app_name
                                             /\ x[2].name = handler'.filename}
            IN  IF there = {} THEN handler'.pc = "done" /\ handler'.status = 404
                ELSE /\ handler'.pc = "open"
                     /\ unwrap(handler'.entry).path = <<handler'.app_name, handler'.filename>>
                     /\ \E x \in there : unwrap(handler'.entry).size = x[2].size
       /\ (RequestStep /\ handler'.route = "download" /\ ScanSucceeds) =>
            LET there == {x \in PairsFound :
                             generate_download_token(x[1], x[2].name, state.download_secret)
                                 = unwrap(handler'.token)}
            IN  IF there = {} THEN handler'.pc = "done" /\ handler'.status = 404
                ELSE /\ handler'.pc = "open"
                     /\ \E x \in there :
                           /\ unwrap(handler'.entry).path = <<x[1], x[2].name>>
                           /\ unwrap(handler'.entry).size = x[2].size
       /\ (handler.pc = "open" /\ handler'.pc = "done") =>
            LET file == lookup_file(fs, unwrap(handler.entry).path)
            IN  IF is_none(file) THEN handler'.status = 500 /\ is_none(handler'.body)
                ELSE handler'.status = 200 /\ handler'.body = file
      ]_vars

\* a file has been asked for by name and was not found in a directory that
\* exists and holds another archive: FILE_A_1 is not there at the request
Wit_C15_RemovedFileNotFound ==
    /\ handler.pc = "done" /\ handler.route = "apps"
    /\ handler.app_name = APP_A /\ handler.filename = FILE_A_1.name
    /\ handler.io = <<"scan">> /\ handler.status = 404
    /\ FilesFound(APP_A) = {FILE_C}

----------------------------------------------------------------------------
(* SpecVersion: generate_repository on the vectors of entries a scan can
   return for one app, no manual versions configured *)

PlistOf(identifier, version, short_version) ==
    Some([NoPlist EXCEPT !.bundle_identifier = Some(identifier),
                         !.bundle_version = Some(version),
                         !.bundle_short_version = short_version,
                         !.bundle_name = Some(identifier)])

\* an archive whose short version equals its bundle version
FILE_D ==
    File(<<"D", ".", "i", "p", "a">>, 70, 1736730000,
         Some(<<[name |-> STR_Payload \o <<"D">> \o STR_app_Info_plist,
                 plist |-> PlistOf(<<"D">>, <<"4">>, Some(<<"4">>))]>>))
\* an archive without a short version
FILE_E ==
    File(<<"E", ".", "i", "p", "a">>, 80, 1736730000,
         Some(<<[name |-> STR_Payload \o <<"E">> \o STR_app_Info_plist,
                 plist |-> PlistOf(<<"E">>, <<"5">>, None)]>>))

VersionFiles == {FILE_A_1, FILE_A_7_1, FILE_B_2, FILE_C, FILE_D, FILE_E}

InitVersion ==
    /\ call \in {[fn |-> "generate_repository", config |-> Config(<<>>), ipa_index |-> idx,
                  base_url |-> BASE_URL] :
                    idx \in UNION {{[n \in {APP_A} |-> v] :
                                      v \in Orderings({ipa_entry(APP_A, f) : f \in chosen})} :
                                  chosen \in {c \in SUBSET VersionFiles :
                                                 Cardinality(c) \in 1..MaxEntries}}}
    /\ ret = None
    /\ state = Idle /\ fs = Idle /\ handler = Idle

SpecVersion == InitVersion /\ [][CallGenerateRepository]_vars

\* the version, date and description claimed for an entry; ok is FALSE when
\* the entry has no bundle version and its filename does not parse
Derived(e) ==
    IF is_some(e.bundle_version)
    THEN LET build == unwrap(e.bundle_version)
             short == e.bundle_short_version
         IN  [ok |-> TRUE,
              version |-> IF is_some(short) THEN unwrap(short) ELSE build,
              date |-> e.modified_date,
              description |->
                  IF is_some(short) /\ unwrap(short) # build
                  THEN STR_Version \o unwrap(short) \o STR_build \o build \o STR_close
                  ELSE STR_Version \o (IF is_some(short) THEN unwrap(short) ELSE build)]
    ELSE parse_version_from_filename(e.filename, e.modified_date)

\* C17: the records of the manifest are those of the entries of the vector:
\* an entry with a bundle version gives the short version if present and the
\* bundle version otherwise, with a description that cites both exactly when
\* the short version is present and differs; an entry without one gives what
\* the filename parses to; an entry whose filename does not parse gives no
\* record, and the entries around it give theirs.  The record of an entry is
\* spelled out where no other entry of the vector gives the same version;
\* every record is of a version that some entry gives.
Thm_C17_VersionDerivationOrder ==
    Generated =>
        LET ipas == call.ipa_index[APP_A]
            versions == unwrap(ret).apps[1].versions
            url(e) == call.base_url \o STR_apps \o APP_A \o <<"/">> \o e.filename
            only_of_version(i) ==
                \A j \in 1..Len(ipas) :
                    (j # i /\ Derived(ipas[j]).ok) =>
                        Derived(ipas[j]).version # Derived(ipas[i]).version
        IN  /\ \A i \in 1..Len(ipas) :
                  IF Derived(ipas[i]).ok
                  THEN only_of_version(i) =>
                          \E k \in 1..Len(versions) :
                              versions[k] = AppVersion(Derived(ipas[i]).version,
                                                       Derived(ipas[i]).date,
                                                       Derived(ipas[i]).description,
                                                       url(ipas[i]), ipas[i].size)
                  ELSE \A k \in 1..Len(versions) : versions[k].download_url # url(ipas[i])
            /\ \A k \in 1..Len(versions) :
                  \E i \in 1..Len(ipas) :
                      Derived(ipas[i]).ok /\ versions[k].version = Derived(ipas[i]).version

\* a manifest built from an entry whose filename does not parse, standing
\* before an entry with a short version that differs from its bundle version
Wit_C17_SkippedThenShortVersion ==
    /\ Generated
    /\ Len(call.ipa_index[APP_A]) >= 2
    /\ call.ipa_index[APP_A][1].filename = FILE_B_2.name
    /\ call.ipa_index[APP_A][2].filename = FILE_C.name
    /\ \E k \in 1..Len(unwrap(ret).apps[1].versions) :
          /\ unwrap(ret).apps[1].versions[k].version = <<"2">>
          /\ contains(unwrap(ret).apps[1].versions[k].localized_description,
                      STR_build \o <<"3">>)

----------------------------------------------------------------------------
(* SpecPlist: extract_ipa_info on archives whose entries come in any order *)

STR_Info_plist == <<"I", "n", "f", "o", ".", "p", "l", "i", "s", "t">>

\* Payload/a.app/Info.plist, the property list of the application: build "1"
ENTRY_APP ==
    [name |-> STR_Payload \o <<"a">> \o STR_app_Info_plist,
     plist |-> PlistOf(<<"a">>, <<"1">>, None)]
\* Payload/a.app/w.app/Info.plist, of a bundle inside the application: build "9"
ENTRY_NESTED ==
    [name |-> STR_Payload \o <<"a", ".", "a", "p", "p", "/", "w">> \o STR_app_Info_plist,
     plist |-> PlistOf(<<"w">>, <<"9">>, None)]
\* Payload/a.app/f/Info.plist, of a directory that is no .app
ENTRY_FRAMEWORK ==
    [name |-> STR_Payload \o <<"a", ".", "a", "p", "p", "/", "f", "/">> \o STR_Info_plist,
     plist |-> PlistOf(<<"f">>, <<"8">>, None)]
\* x/a.app/Info.plist, outside Payload
ENTRY_OUTSIDE ==
    [name |-> <<"x", "/", "a">> \o STR_app_Info_plist,
     plist |-> PlistOf(<<"x">>, <<"7">>, None)]
\* Info.plist at the top of the archive
ENTRY_TOP == [name |-> STR_Info_plist, plist |-> PlistOf(<<"t">>, <<"6">>, None)]
\* Payload/a.app/a, the executable
ENTRY_BINARY ==
    [name |-> STR_Payload \o <<"a", ".", "a", "p", "p", "/", "a">>, plist |-> None]

ArchiveEntries ==
    {ENTRY_APP, ENTRY_NESTED, ENTRY_FRAMEWORK, ENTRY_OUTSIDE, ENTRY_TOP, ENTRY_BINARY}

InitPlist ==
    /\ call \in {[fn |-> "extract_ipa_info",
                  file |-> File(<<"a", ".", "i", "p", "a">>, 10, 1736730000, Some(archive))] :
                    archive \in UNION {Orderings(entries) : entries \in SUBSET ArchiveEntries}}
    /\ ret = None
    /\ state = Idle /\ fs = Idle /\ handler = Idle

\* extract_ipa_info, and the path its find_info_plist returned
CallExtractIpaInfo ==
    /\ call # Idle /\ call.fn = "extract_ipa_info" /\ ret = None
    /\ ret' = Some([plist_path |-> find_info_plist(unwrap(call.file.archive)),
                    info |-> extract_ipa_info(call.file)])
    /\ UNCHANGED <<state, fs, handler, call>>

SpecPlist == InitPlist /\ [][CallExtractIpaInfo]_vars

Extracted == call # Idle /\ call.fn = "extract_ipa_info" /\ ret # None

\* the name is Payload/<name>.app/Info.plist: three components
ExactPlistPath(name) ==
    LET parts == split(name, "/")
    IN  /\ Len(parts) = 3
        /\ parts[1] = <<"P", "a", "y", "l", "o", "a", "d">>
        /\ ends_with(parts[2], <<".", "a", "p", "p">>)
        /\ parts[3] = STR_Info_plist

\* C18 (as claimed): the entry selected is at exactly
\* Payload/<name>.app/Info.plist, in whatever order the entries come, and the
\* extraction fails exactly when the archive has no entry of that shape.
Cex_C18_PlistAtExactPath ==
    Extracted =>
        LET archive == unwrap(call.file.archive)
            exact == {i \in 1..Len(archive) : ExactPlistPath(archive[i].name)}
        IN  IF exact = {} THEN is_none(unwrap(ret).plist_path) /\ ~unwrap(ret).info.ok
            ELSE /\ is_some(unwrap(ret).plist_path)
                 /\ ExactPlistPath(unwrap(unwrap(ret).plist_path))

----------------------------------------------------------------------------
(* SpecServable: the manifest and the direct downloads on a filesystem that
   does not change *)

\* no archive; the name holds ".." and parses to the version "A."
FILE_DOTS == File(<<"A", ".", ".", "i", "p", "a">>, 90, 1736730000, None)

ServableFiles == {FILE_A_1, FILE_C, FILE_DOTS}

InitServable ==
    /\ state \in AppStates
    /\ fs \in {[root |-> "dir",
                top |-> {[name |-> APP_A, kind |-> "dir", children |-> children]}] :
                  children \in SUBSET ServableFiles}
    /\ handler = IdleHandler
    /\ call = Idle /\ ret = None

\* a direct download of a file of the pool, there or not
serve_ipa_of_pool == \E file \in ServableFiles : serve_ipa(APP_A, file.name)

NextServable ==
    \/ serve_repository_json
    \/ serve_ipa_of_pool
    \/ open_file
    \/ deliver

SpecServable == InitServable /\ [][NextServable]_vars

\* the downloadURLs of the manifests a request on the filesystem as it is
\* can be answered with
EmittedUrls ==
    UNION {UNION {{repository.apps[k].versions[i].download_url :
                      i \in 1..Len(repository.apps[k].versions)} :
                  k \in 1..Len(repository.apps)} :
           repository \in UNION {generate_repository(state.config, scan.index,
                                                     state.external_base_url) :
                                    scan \in {x \in discover_ipas(fs) : x.ok}}}

\* C19 (as claimed): a direct download of a path whose URL the manifest
\* emits for a discovered entry is answered with status 200 and the file the
\* entry was built from, with a download secret or without, whatever the
\* names.
Cex_C19_EmittedUrlIsServable ==
    (/\ DirectRequest /\ handler.pc = "done"
     /\ is_some(lookup_file(fs, <<handler.app_name, handler.filename>>))
     /\ DirectUrl(handler.app_name, handler.filename) \in EmittedUrls) =>
        /\ handler.status = 200
        /\ handler.body = lookup_file(fs, <<handler.app_name, handler.filename>>)

----------------------------------------------------------------------------
(* SpecAuth: the requests behind the validate_token middleware, an
   authentication token configured *)

AUTH == <<"t">>

\* auth.rs, validate_token: whether the request is passed on to its handler
validate_token(req) ==
    IF req.route = "download" THEN TRUE
    ELSE IF is_none(state.auth_token) THEN TRUE
    ELSE is_some(req.query) /\ unwrap(req.query) = unwrap(state.auth_token)

\* the request with its token query parameter
WithQuery(req, query) == [req EXCEPT !.query = query]

\* a request through the middleware: 401, or what the handler answers
Authenticated(req, responses) ==
    /\ handler.pc = "idle"
    /\ handler' \in IF validate_token(req) THEN responses ELSE {Respond(req, 401)}
    /\ state' = IF handler'.route = "repository" /\ handler'.status = 200
                THEN [state EXCEPT !.config = retained_config(@, unwrap(handler'.body))]
                ELSE state
    /\ UNCHANGED <<fs, call, ret>>

AuthFiles == {FILE_A_1, FILE_C}
AuthQueries == {None, Some(AUTH), Some(<<"?">>)}

\* the download tokens a client can ask with: those of the files under the
\* configured secret, those computed from the names alone, and another
AuthTokens ==
    {generate_download_token(APP_A, f.name, secret) :
        f \in AuthFiles, secret \in {None, Some(SECRET)}} \cup {<<"?">>}

get_repository_json ==
    \E query \in AuthQueries :
        LET req == WithQuery(Request("repository", <<>>, <<>>, None), query)
        IN  Authenticated(req, repository_responses(req))

get_apps ==
    \E query \in AuthQueries, f \in AuthFiles :
        LET req == WithQuery(Request("apps", APP_A, f.name, None), query)
        IN  Authenticated(req, serve_ipa_lookup(req))

get_download ==
    \E query \in AuthQueries, token \in AuthTokens :
        LET req == WithQuery(Request("download", <<>>, <<>>, Some(token)), query)
        IN  Authenticated(req, serve_ipa_obfuscated_lookup(req))

InitAuth ==
    /\ state \in {[st EXCEPT !.auth_token = Some(AUTH)] :
                     st \in {x \in AppStates : x.config = Config(<<>>)
                                               /\ x.external_base_url = BASE_URL}}
    /\ fs \in {[root |-> "dir",
                top |-> {[name |-> APP_A, kind |-> "dir", children |-> children]}] :
                  children \in SUBSET AuthFiles}
    /\ handler = IdleHandler
    /\ call = Idle /\ ret = None

NextAuth ==
    \/ get_repository_json
    \/ get_apps
    \/ get_download
    \/ open_file
    \/ deliver

SpecAuth == InitAuth /\ [][NextAuth]_vars

\* the download tokens that can be computed from the names of the files alone
TokensFromNames == {generate_download_token(APP_A, f.name, None) : f \in AuthFiles}

\* C20 (as claimed): an authentication token being configured, a file is
\* sent only in answer to a request that carries that token, or to a download
\* request whose token is not one that the names of the files give without a
\* secret.
Cex_C20_NoFileWithoutCredential ==
    (/\ is_some(state.auth_token)
     /\ handler.pc = "done" /\ handler.status = 200
     /\ handler.route \in {"apps", "download"}) =>
        \/ handler.query = state.auth_token
        \/ /\ handler.route = "download"
           /\ is_some(state.download_secret)
           /\ unwrap(handler.token) \notin TokensFromNames

----------------------------------------------------------------------------
(* SpecCollide: the obfuscated download on filesystems whose directory and
   file names hold the separator of the token's hash input *)

DIR_a == <<"a">>
DIR_a_bar == <<"a", "|">>
\* "|c.ipa" and "c.ipa", told apart by their sizes
FILE_bar_c == File(<<"|", "c", ".", "i", "p", "a">>, 11, 1736730000, None)
FILE_c == File(<<"c", ".", "i", "p", "a">>, 22, 1736730000, None)

CollideDirs == {DIR_a, DIR_a_bar}
CollideFiles == {FILE_bar_c, FILE_c}

InitCollide ==
    /\ state \in {st \in AppStates : st.config = Config(<<>>)
                                     /\ st.external_base_url = BASE_URL}
    /\ fs \in {[root |-> "dir",
                top |-> {[name |-> d, kind |-> "dir", children |-> content[d]] :
                            d \in CollideDirs}] :
                  content \in [CollideDirs -> SUBSET CollideFiles]}
    /\ handler = IdleHandler
    /\ call = Idle /\ ret = None

\* an obfuscated download with the token computed for a pair of names
serve_ipa_obfuscated_of_pair ==
    \E d \in CollideDirs, f \in CollideFiles :
        serve_ipa_obfuscated(generate_download_token(d, f.name, state.download_secret))

NextCollide ==
    \/ serve_ipa_obfuscated_of_pair
    \/ open_file
    \/ deliver

SpecCollide == InitCollide /\ [][NextCollide]_vars

\* C21 (as claimed): two distinct pairs of the index give distinct bytes to
\* the hash, and an obfuscated download that has found an entry has found
\* the entry of every pair that its token was computed for: the file served
\* is the file of that pair and of no other.
Cex_C21_DistinctPairsDistinctTokens ==
    (handler.route = "download" /\ is_some(handler.entry)) =>
        /\ \A p, q \in PairsFound :
              p # q => hasher_input(p[1], p[2].name, state.download_secret)
                          # hasher_input(q[1], q[2].name, state.download_secret)
        /\ \A p \in PairsFound :
              generate_download_token(p[1], p[2].name, state.download_secret)
                  = unwrap(handler.token)
                      => unwrap(handler.entry).path = <<p[1], p[2].name>>

----------------------------------------------------------------------------
(* SpecMerge: the records of versions that only the discovered list holds *)

\* C22 (as claimed): every record of the output whose version is not in the
\* manual list is one of the records of the discovered list, field by field.
Cex_C22_DiscoveredRecordsUnmixed ==
    Merged =>
        \A i \in 1..Len(unwrap(ret)) :
            unwrap(ret)[i].version \notin VersionsOf(call.manual_versions) =>
                \E j \in 1..Len(call.discovered_versions) :
                    unwrap(ret)[i] = call.discovered_versions[j]

----------------------------------------------------------------------------
(* SpecMergeTwice: merge_versions called twice on the same two lists *)

InitMergeTwice ==
    /\ call \in {[fn |-> "merge_versions twice", manual_versions |-> m,
                  discovered_versions |-> d] :
                    m \in SeqsUpTo(ManualRecords, MaxManual),
                    d \in SeqsUpTo(DiscoveredRecords, MaxDiscovered)}
    /\ ret = None
    /\ state = Idle /\ fs = Idle /\ handler = Idle

\* two calls, each with a HashMap of its own
CallMergeVersionsTwice ==
    /\ call # Idle /\ call.fn = "merge_versions twice" /\ ret = None
    /\ \E first \in merge_versions(call.manual_versions, call.discovered_versions),
          second \in merge_versions(call.manual_versions, call.discovered_versions) :
          ret' = Some(<<first, second>>)
    /\ UNCHANGED <<state, fs, handler, call>>

SpecMergeTwice == InitMergeTwice /\ [][CallMergeVersionsTwice]_vars

\* C23 (as claimed): two calls of merge_versions on the same lists return
\* the same records in the same order.
Cex_C23_MergeIsAFunction ==
    (call # Idle /\ call.fn = "merge_versions twice" /\ ret # None) =>
        unwrap(ret)[1] = unwrap(ret)[2]

----------------------------------------------------------------------------
(* SpecRace: a download, and the requested file replaced or removed between
   the scan and the open *)

RaceFiles == {FILE_A_1, FILE_C}

\* what a file is replaced by: the same name, another length
Replaced(file) == [file EXCEPT !.size = @ + 5]

RaceSlots ==
    {[dir |-> APP_A, file |-> f] : f \in RaceFiles \cup {Replaced(x) : x \in RaceFiles}}

InitRace ==
    /\ state \in {st \in AppStates : st.config = Config(<<>>)
                                     /\ st.external_base_url = BASE_URL}
    /\ fs = [root |-> "dir", top |-> {[name |-> APP_A, kind |-> "dir", children |-> {}]}]
    /\ handler = IdleHandler
    /\ call = Idle /\ ret = None

\* the file is overwritten by a file of the same name
replace_file ==
    /\ FsMayChange
    /\ \E old, new \in RaceSlots :
          /\ old # new /\ old.file.name = new.file.name
          /\ lookup_file(fs, <<old.dir, old.file.name>>) = Some(old.file)
          /\ fs' = [fs EXCEPT !.top =
                      {IF e.name = old.dir
                       THEN [e EXCEPT !.children = (@ \ {old.file}) \cup {new.file}]
                       ELSE e : e \in @}]
    /\ UNCHANGED <<state, handler, call, ret>>

NextRace ==
    \/ \E f \in RaceFiles : serve_ipa(APP_A, f.name)
    \/ \E f \in RaceFiles :
          serve_ipa_obfuscated(generate_download_token(APP_A, f.name, state.download_secret))
    \/ open_file
    \/ deliver
    \/ replace_file
    \/ \E slot \in RaceSlots : remove_file(slot)
    \/ \E slot \in RaceSlots : add_file(slot)

SpecRace == InitRace /\ [][NextRace]_vars

\* C24 (as claimed): a download answered with 200 declares the length of the
\* file it has opened, and a download whose file is gone at the open is
\* answered with 404.
Cex_C24_ContentLengthOfOpenedFile ==
    (handler.pc = "done" /\ handler.route \in {"apps", "download"}) =>
        /\ handler.status = 200 => unwrap(handler.content_length) = unwrap(handler.body).size
        /\ (handler.io = <<"scan", "open">> /\ is_none(handler.body)) => handler.status = 404

====
